---- MODULE Spec2Model ----
(***************************************************************************)
(* Job-application tracker backend (FastAPI + SQLAlchemy + Redis).         *)
(*                                                                         *)
(* State: the users and applications tables, the rate-limit counters kept  *)
(* in the counter store, the bearer tokens handed out by login, the clock, *)
(* the register requests that passed the email check and have not yet      *)
(* committed, and the last HTTP response.  One action per request handler. *)
(*                                                                         *)
(* Time is counted in ticks; utcnow() is `now` and utcnow().date() is the  *)
(* tick itself.  The durations of config.py are environment-overridable    *)
(* settings and are instantiated with small tick counts.                   *)
(***************************************************************************)
EXTENDS Integers, Sequences, FiniteSets, TLC

\* ------------------------------------------------------------------ bounds
MaxTime == 2
MaxApps == 2
MaxTokens == 2
MaxCount == 4
MaxRows == 3

\* ---------------------------------------------------------------- settings
ACCESS_TOKEN_EXPIRE_MINUTES == 1
RATE_LIMIT_LOGIN_MAX == 2
RATE_LIMIT_LOGIN_WINDOW == 1
RATE_LIMIT_REGISTER_MAX == 2
RATE_LIMIT_REGISTER_WINDOW == 2
SECRET_KEY == "your-secret-key-change-this-in-production"

\* ------------------------------------------------------------ input domains
Emails == {"a@x.io", "b@x.io"}
FullNames == {"Ann"}
Ips == {"10.0.0.1"}
Salts == {"s1", "s2"}

PwGood == <<"S", "e", "c", "u", "r", "e", "p", "1">>
PwOther == <<"O", "t", "h", "e", "r", "P", "w", "2">>
PwWeak == <<"a", "n", "o", "t", "h", "e", "r", "p", "w", "d">>
Passwords == {PwGood, PwOther, PwWeak}

\* Passwords that break exactly one rule of UserCreate.validate_password.
PwShort == <<"S", "e", "c", "u", "r", "e", "1">>
PwNoUpper == <<"s", "e", "c", "u", "r", "e", "p", "1">>
PwNoLower == <<"S", "P", "O", "S", "P", "O", "1", "2">>
PwNoDigit == <<"S", "e", "c", "u", "r", "e", "p", "w">>
RulePasswords == {PwGood, PwShort, PwNoUpper, PwNoLower, PwNoDigit}

UpperChars == {"S", "O", "P"}
LowerChars == {"e", "c", "u", "r", "p", "t", "h", "w", "a", "n", "o", "d", "s"}
DigitChars == {"1", "2"}

Null == "null"
GhostId == 0

VARIABLES
    users,       \* rows of table "users"
    apps,        \* rows of table "applications"
    tokens,      \* tokens issued by login so far
    pending,     \* register requests between the email check and the commit
    redis_url,   \* settings.REDIS_URL is set
    redis_conn,  \* rate_limiter._redis is not None
    store_up,    \* the counter store answers
    counters,    \* the counter store: key -> [n, exp]
    now,         \* the clock
    app_seq,     \* number of rows ever inserted into "applications"
    last         \* the last request answered and its response

vars == <<users, apps, app_seq, tokens, pending, redis_url, redis_conn, store_up, counters, now, last>>

\* ---------------------------------------------------------------- models
UserRoleUSER == "user"
UserRoleADMIN == "admin"

ApplicationStatus == {"applied", "screening", "interview", "offer", "accepted", "rejected"}

\* Column defaults of User: role defaults to UserRole.USER, id to a fresh uuid4.
NewUserRow(id, email, hashed, full_name) ==
    [id |-> id, email |-> email, hashed_password |-> hashed,
     full_name |-> full_name, role |-> UserRoleUSER]

\* ---------------------------------------------------------------- security
\* bcrypt: the salt is drawn at random and embedded in the hash.
get_password_hash(password, salt) == [salt |-> salt, digest |-> <<salt, password>>]

verify_password(plain_password, hashed_password) ==
    hashed_password.digest = <<hashed_password.salt, plain_password>>

create_access_token(sub, t, expires_delta) ==
    [kind |-> "jwt", has_sub |-> TRUE, sub |-> sub,
     exp |-> t + (IF expires_delta # 0 THEN expires_delta ELSE ACCESS_TOKEN_EXPIRE_MINUTES),
     key |-> SECRET_KEY]

NoPayload == [kind |-> "none"]

\* Mutant: the expiry claim is not verified.
decode_access_token_NoExpiry(token, t) ==
    IF token.kind # "jwt" THEN NoPayload
    ELSE IF token.key # SECRET_KEY THEN NoPayload
    ELSE [kind |-> "payload", has_sub |-> token.has_sub, sub |-> token.sub, exp |-> token.exp]

\* jwt.decode: JWTError on a malformed token, a signature mismatch or exp in the past.
decode_access_token(token, t) ==
    IF token.kind # "jwt" THEN NoPayload
    ELSE IF token.key # SECRET_KEY THEN NoPayload
    ELSE IF token.exp < t THEN NoPayload
    ELSE [kind |-> "payload", has_sub |-> token.has_sub, sub |-> token.sub, exp |-> token.exp]

\* UserCreate.validate_password
validate_password(v) ==
    /\ Len(v) >= 8
    /\ \E i \in 1..Len(v) : v[i] \in UpperChars
    /\ \E i \in 1..Len(v) : v[i] \in LowerChars
    /\ \E i \in 1..Len(v) : v[i] \in DigitChars

\* ---------------------------------------------------------------- responses
NoBody == [kind |-> "none"]

HTTPException(status_code, detail, headers) ==
    [status |-> status_code, detail |-> detail, headers |-> headers, body |-> NoBody]

Ok(status_code, body) ==
    [status |-> status_code, detail |-> "", headers |-> "", body |-> body]

credentials_exception ==
    HTTPException(401, "Could not validate credentials", "WWW-Authenticate: Bearer")

\* OAuth2PasswordBearer (auto_error) when the Authorization header is absent.
not_authenticated ==
    HTTPException(401, "Not authenticated", "WWW-Authenticate: Bearer")

\* Mutant: the response serialises the whole row.
UserResponse_WholeRow(u) == [kind |-> "user"] @@ u

UserResponse(u) ==
    [kind |-> "user", id |-> u.id, email |-> u.email, full_name |-> u.full_name, role |-> u.role]

NoUser == [kind |-> "none", id |-> GhostId]

\* Mutant: the lookup without its filter on the id.
UserById_AnyUser(id) == IF users # {} THEN CHOOSE u \in users : TRUE ELSE NoUser

\* db.query(User).filter(User.id == user_id).first()
UserById(id) == IF \E u \in users : u.id = id THEN CHOOSE u \in users : u.id = id ELSE NoUser

\* Mutant: a subject without an account gets an answer of its own.
get_current_user_TellsAccountGone(token, t) ==
    IF token.kind = "missing" THEN [ok |-> FALSE, user |-> NoUser, err |-> not_authenticated]
    ELSE LET payload == decode_access_token(token, t) IN
         IF payload.kind = "none"
         THEN [ok |-> FALSE, user |-> NoUser, err |-> credentials_exception]
         ELSE IF ~payload.has_sub
         THEN [ok |-> FALSE, user |-> NoUser, err |-> credentials_exception]
         ELSE IF UserById(payload.sub) = NoUser
         THEN [ok |-> FALSE, user |-> NoUser,
               err |-> HTTPException(401, "User not found", "WWW-Authenticate: Bearer")]
         ELSE [ok |-> TRUE, user |-> UserById(payload.sub), err |-> NoBody]

\* get_current_user: the account, or the 401 it raises.
get_current_user(token, t) ==
    IF token.kind = "missing" THEN [ok |-> FALSE, user |-> NoUser, err |-> not_authenticated]
    ELSE LET payload == decode_access_token(token, t) IN
         IF payload.kind = "none"
         THEN [ok |-> FALSE, user |-> NoUser, err |-> credentials_exception]
         ELSE IF ~payload.has_sub
         THEN [ok |-> FALSE, user |-> NoUser, err |-> credentials_exception]
         ELSE IF UserById(payload.sub) = NoUser
         THEN [ok |-> FALSE, user |-> NoUser, err |-> credentials_exception]
         ELSE [ok |-> TRUE, user |-> UserById(payload.sub), err |-> NoBody]

\* ------------------------------------------------------------ bad tokens
\* What a client can present besides the tokens login gave out.
FarFuture == MaxTime + ACCESS_TOKEN_EXPIRE_MINUTES

MissingToken == [kind |-> "missing", has_sub |-> FALSE, sub |-> GhostId, exp |-> 0, key |-> ""]
MalformedToken == [kind |-> "malformed", has_sub |-> FALSE, sub |-> GhostId, exp |-> 0, key |-> ""]
ForgedToken == [kind |-> "jwt", has_sub |-> TRUE, sub |-> 1, exp |-> FarFuture, key |-> "guessed-key"]
NoSubToken == [kind |-> "jwt", has_sub |-> FALSE, sub |-> GhostId, exp |-> FarFuture, key |-> SECRET_KEY]
GhostToken == [kind |-> "jwt", has_sub |-> TRUE, sub |-> GhostId, exp |-> FarFuture, key |-> SECRET_KEY]

BadTokens == {MissingToken, MalformedToken, ForgedToken, NoSubToken, GhostToken}

\* ------------------------------------------------------------ rate limiter
NoExpiry == 0 - 1
NoCounter == [n |-> 0, exp |-> NoExpiry]
RateKeys == {"register", "login"} \X Ips

\* How a connection attempt to a store that is down ends: refused at once
\* (redis.ConnectionError) or not answered (redis.TimeoutError, which is a
\* RedisError but no ConnectionError).
ConnectionError == "ConnectionError"
TimeoutError == "TimeoutError"
ConnectErrors == {ConnectionError, TimeoutError}

\* RateLimiter.redis: connect lazily.  A ConnectionError leaves _redis None;
\* any other error of from_url/ping leaves the property with _redis assigned.
redis(conn, connect_error) ==
    IF ~conn /\ redis_url
    THEN IF store_up THEN [conn |-> TRUE, raised |-> FALSE]
         ELSE IF connect_error = ConnectionError THEN [conn |-> FALSE, raised |-> FALSE]
         ELSE [conn |-> TRUE, raised |-> TRUE]
    ELSE [conn |-> conn, raised |-> FALSE]

\* Mutant: the request that takes the counter to max is rejected already.
is_rate_limited_OffByOne(key, max_requests, window_seconds, expire_ok, connect_error) ==
    LET current == counters[key].n + 1 IN
    [limited |-> current >= max_requests, raised |-> FALSE, conn |-> TRUE,
     counters |-> [counters EXCEPT ![key] =
                      [n |-> current,
                       exp |-> IF current = 1 /\ expire_ok THEN now + window_seconds
                               ELSE counters[key].exp]]]

\* RateLimiter.is_rate_limited. expire_ok: the expiry call that follows the
\* first increment is answered by the store.
is_rate_limited(key, max_requests, window_seconds, expire_ok, connect_error) ==
    LET r == redis(redis_conn, connect_error)
        allowed == [limited |-> FALSE, raised |-> r.raised, conn |-> r.conn,
                    counters |-> counters]
    IN
    IF r.raised \/ ~r.conn \/ ~store_up THEN allowed
    ELSE LET current == counters[key].n + 1
             incremented == [counters EXCEPT ![key].n = current]
         IN  IF current = 1
             THEN IF expire_ok
                  THEN [allowed EXCEPT !.limited = current > max_requests,
                                       !.counters = [incremented EXCEPT
                                                        ![key].exp = now + window_seconds]]
                  ELSE [allowed EXCEPT !.counters = incremented]
             ELSE [allowed EXCEPT !.limited = current > max_requests,
                                  !.counters = incremented]

\* Mutant: the 429 without its Retry-After header.
too_many_requests_NoRetryAfter(window_seconds) ==
    [status |-> 429, detail |-> "Too many requests. Please try again later.",
     headers |-> <<>>, body |-> NoBody]

\* check_rate_limit: the 429 it raises.
too_many_requests(window_seconds) ==
    [status |-> 429, detail |-> "Too many requests. Please try again later.",
     headers |-> <<"Retry-After", window_seconds>>, body |-> NoBody]

\* ------------------------------------------------------------ last response
NoApp == [kind |-> "none"]

\* Query parameters of a request and their defaults (get_applications,
\* get_timeline).  `returned` of a request is the list of rows get_applications
\* hands to the response model.
NoQuery ==
    [status |-> "", search |-> <<>>, is_archived |-> FALSE, skip |-> 0, limit |-> 100,
     days |-> 30]

NoRequest ==
    [op |-> "none", ip |-> "", email |-> "", password |-> <<>>, token |-> MissingToken,
     app_id |-> GhostId, caller |-> GhostId, known |-> FALSE, at |-> 0,
     resp |-> Ok(0, NoBody), pre |-> NoApp, query |-> NoQuery, returned |-> <<>>]

\* known: an account with this email existed when the handler looked.
AuthRequest(op, ip, email, password, known, resp) ==
    [NoRequest EXCEPT !.op = op, !.ip = ip, !.email = email, !.password = password,
                      !.known = known, !.at = now, !.resp = resp]

\* ------------------------------------------------------------------ Init
InitCommon ==
    /\ users = {}
    /\ apps = {}
    /\ app_seq = 0
    /\ tokens = {}
    /\ pending = {}
    /\ redis_conn = FALSE
    /\ store_up = TRUE
    /\ counters = [k \in RateKeys |-> NoCounter]
    /\ now = 0
    /\ last = NoRequest

\* ------------------------------------------------------------- POST /register
\* Body validation (422) comes before the handler.  The handler does the rate
\* limit check, then the email check; the insert is committed in RegisterCommit.
existing_user(email) == \E u \in users : u.email = email

register(ip, email, password, full_name, salt, expire_ok, connect_error) ==
    LET known == \E u \in users : u.email = email IN
    /\ counters[<<"register", ip>>].n < MaxCount
    /\ IF ~validate_password(password)
       THEN /\ last' = AuthRequest("register", ip, email, password, known,
                                   HTTPException(422, "Password does not meet the requirements", ""))
            /\ UNCHANGED <<pending, redis_conn, counters>>
       ELSE LET rl == is_rate_limited(<<"register", ip>>, RATE_LIMIT_REGISTER_MAX,
                                      RATE_LIMIT_REGISTER_WINDOW, expire_ok, connect_error)
            IN  /\ redis_conn' = rl.conn
                /\ counters' = rl.counters
                /\ IF rl.raised
                   THEN /\ last' = AuthRequest("register", ip, email, password, known,
                                               HTTPException(500, "Internal Server Error", ""))
                        /\ UNCHANGED pending
                   ELSE IF rl.limited
                   THEN /\ last' = AuthRequest("register", ip, email, password, known,
                                               too_many_requests(RATE_LIMIT_REGISTER_WINDOW))
                        /\ UNCHANGED pending
                   ELSE IF existing_user(email)
                   THEN /\ last' = AuthRequest("register", ip, email, password, known,
                                               HTTPException(400, "Email already registered", ""))
                        /\ UNCHANGED pending
                   ELSE /\ pending' = pending \cup
                                {[ip |-> ip, email |-> email, password |-> password,
                                  known |-> known,
                                  hashed_password |-> get_password_hash(password, salt),
                                  full_name |-> full_name]}
                        /\ UNCHANGED last
    /\ UNCHANGED <<users, apps, app_seq, tokens, redis_url, store_up, now>>

\* Mutant: the email column without its unique index.
RegisterCommit_NoUniqueIndex(p) ==
    /\ p \in pending
    /\ pending' = pending \ {p}
    /\ LET new_user == NewUserRow(Cardinality(users) + 1, p.email,
                                  p.hashed_password, p.full_name)
       IN  /\ users' = users \cup {new_user}
           /\ last' = AuthRequest("register", p.ip, p.email, p.password, p.known,
                                  Ok(201, UserResponse(new_user)))
    /\ UNCHANGED <<apps, app_seq, tokens, redis_url, redis_conn, store_up, counters, now>>

\* db.add; db.commit; db.refresh: the unique index on users.email refuses a
\* second row with the same email (IntegrityError, answered 500).
RegisterCommit(p) ==
    /\ p \in pending
    /\ pending' = pending \ {p}
    /\ IF \E u \in users : u.email = p.email
       THEN /\ last' = AuthRequest("register", p.ip, p.email, p.password, p.known,
                                   HTTPException(500, "Internal Server Error", ""))
            /\ UNCHANGED users
       ELSE LET new_user == NewUserRow(Cardinality(users) + 1, p.email,
                                       p.hashed_password, p.full_name)
            IN  /\ users' = users \cup {new_user}
                /\ last' = AuthRequest("register", p.ip, p.email, p.password, p.known,
                                       Ok(201, UserResponse(new_user)))
    /\ UNCHANGED <<apps, app_seq, tokens, redis_url, redis_conn, store_up, counters, now>>

\* ---------------------------------------------------------------- POST /login
TokenBody(access_token) ==
    [kind |-> "token", access_token |-> access_token, token_type |-> "bearer"]

UserByEmail(email) ==
    IF \E u \in users : u.email = email THEN CHOOSE u \in users : u.email = email ELSE NoUser

\* Mutant: an unknown email gets an answer of its own.
invalid_credentials_TellsUnknown(user) ==
    IF user = NoUser
    THEN HTTPException(401, "Unknown email", "WWW-Authenticate: Bearer")
    ELSE HTTPException(401, "Incorrect email or password", "WWW-Authenticate: Bearer")

\* The one error of login, whichever of the two checks failed.
invalid_credentials(user) ==
    HTTPException(401, "Incorrect email or password", "WWW-Authenticate: Bearer")

login(ip, username, password, expire_ok, connect_error) ==
    LET rl == is_rate_limited(<<"login", ip>>, RATE_LIMIT_LOGIN_MAX,
                              RATE_LIMIT_LOGIN_WINDOW, expire_ok, connect_error)
        user == UserByEmail(username)
    IN  /\ counters[<<"login", ip>>].n < MaxCount
        /\ redis_conn' = rl.conn
        /\ counters' = rl.counters
        /\ IF rl.raised
           THEN /\ last' = AuthRequest("login", ip, username, password, user # NoUser,
                                       HTTPException(500, "Internal Server Error", ""))
                /\ UNCHANGED tokens
           ELSE IF rl.limited
           THEN /\ last' = AuthRequest("login", ip, username, password, user # NoUser,
                                       too_many_requests(RATE_LIMIT_LOGIN_WINDOW))
                /\ UNCHANGED tokens
           ELSE IF user = NoUser \/ ~verify_password(password, user.hashed_password)
           THEN /\ last' = AuthRequest("login", ip, username, password, user # NoUser,
                                       invalid_credentials(user))
                /\ UNCHANGED tokens
           ELSE LET access_token == create_access_token(user.id, now, ACCESS_TOKEN_EXPIRE_MINUTES)
                IN  /\ Cardinality(tokens \cup {access_token}) <= MaxTokens
                    /\ tokens' = tokens \cup {access_token}
                    /\ last' = AuthRequest("login", ip, username, password, TRUE,
                                           Ok(200, TokenBody(access_token)))
        /\ UNCHANGED <<users, apps, app_seq, pending, redis_url, store_up, now>>

\* ------------------------------------------------------------------ GET /me
ProtectedRequest(op, token, app_id, caller, resp, pre) ==
    [NoRequest EXCEPT !.op = op, !.token = token, !.app_id = app_id, !.caller = caller,
                      !.at = now, !.resp = resp, !.pre = pre]

get_current_user_info(token) ==
    LET auth == get_current_user(token, now) IN
    /\ last' = IF auth.ok
               THEN ProtectedRequest("me", token, GhostId, auth.user.id,
                                     Ok(200, UserResponse(auth.user)), NoApp)
               ELSE ProtectedRequest("me", token, GhostId, GhostId, auth.err, NoApp)
    /\ UNCHANGED <<users, apps, app_seq, tokens, pending, redis_url, redis_conn, store_up, counters, now>>

\* ------------------------------------------------------------ environment
\* Time passes; the store drops the counters whose expiry has come.
Tick ==
    /\ now < MaxTime
    /\ now' = now + 1
    /\ counters' = [k \in RateKeys |->
                      IF counters[k].exp # NoExpiry /\ counters[k].exp <= now + 1
                      THEN NoCounter ELSE counters[k]]
    /\ UNCHANGED <<users, apps, app_seq, tokens, pending, redis_url, redis_conn, store_up, last>>

StoreDown ==
    /\ redis_url
    /\ store_up
    /\ store_up' = FALSE
    /\ UNCHANGED <<users, apps, app_seq, tokens, pending, redis_url, redis_conn, counters, now, last>>

StoreUp ==
    /\ ~store_up
    /\ store_up' = TRUE
    /\ UNCHANGED <<users, apps, app_seq, tokens, pending, redis_url, redis_conn, counters, now, last>>

\* is_rate_limited, lines 57-59: the expiry call of the request whose
\* increment created the counter is a second store command; increments of
\* other requests and the clock may come between the two.
expire(key, window_seconds) ==
    /\ redis_url
    /\ redis_conn
    /\ store_up
    /\ counters[key].n >= 1
    /\ counters[key].exp = NoExpiry
    /\ counters' = [counters EXCEPT ![key].exp = now + window_seconds]
    /\ UNCHANGED <<users, apps, app_seq, tokens, pending, redis_url, redis_conn, store_up, now, last>>

PresentedTokens == tokens \cup BadTokens

\* ------------------------------------------------------------ applications
\* Columns of table "applications" (models/application.py).
ApplicationRow(id, user_id, data, t) ==
    [id |-> id, user_id |-> user_id, company_name |-> data.company_name,
     job_title |-> data.job_title, status |-> data.status,
     date_applied |-> data.date_applied, job_url |-> data.job_url, notes |-> data.notes,
     is_archived |-> FALSE, created_at |-> t, updated_at |-> t]

ApplicationColumns ==
    {"id", "user_id", "company_name", "job_title", "status", "date_applied", "job_url",
     "notes", "is_archived", "created_at", "updated_at"}

\* Keys of ApplicationCreate.dict(): every field of the schema, set or defaulted.
ApplicationCreateFields ==
    {"company_name", "job_title", "status", "date_applied", "job_url", "notes",
     "follow_up_date", "last_contact_date"}

\* Fields ApplicationResponse requires of the object it is built from.
ApplicationResponseFields ==
    {"id", "company_name", "job_title", "status", "date_applied", "job_url", "notes",
     "follow_up_date", "last_contact_date", "is_archived", "created_at", "updated_at"}

internal_server_error == HTTPException(500, "Internal Server Error", "")

\* response_model=ApplicationResponse (from_attributes): every required field is
\* read off the ORM object; `extra` are the plain attributes set on the object
\* during the request.  A field the object lacks fails response validation.
ApplicationResponse(row, extra) ==
    IF ApplicationResponseFields \subseteq (ApplicationColumns \cup DOMAIN extra)
    THEN Ok(200, [kind |-> "application", id |-> row.id, company_name |-> row.company_name,
                  job_title |-> row.job_title, status |-> row.status,
                  date_applied |-> row.date_applied, job_url |-> row.job_url,
                  notes |-> row.notes, follow_up_date |-> extra.follow_up_date,
                  last_contact_date |-> extra.last_contact_date,
                  is_archived |-> row.is_archived, created_at |-> row.created_at,
                  updated_at |-> row.updated_at])
    ELSE internal_server_error

not_found == HTTPException(404, "Application not found", "")

NoExtra == [x \in {} |-> Null]

\* The row with this id whoever owns it (what the request is aimed at).
AppById(application_id) ==
    IF \E a \in apps : a.id = application_id
    THEN CHOOSE a \in apps : a.id = application_id
    ELSE NoApp

\* Mutant: the ownership filter left out of the query.
OwnedApplication_AnyOwner(application_id, user_id) == AppById(application_id)

\* db.query(Application).filter(id == application_id, user_id == current_user.id).first()
OwnedApplication(application_id, user_id) ==
    IF \E a \in apps : a.id = application_id /\ a.user_id = user_id
    THEN CHOOSE a \in apps : a.id = application_id /\ a.user_id = user_id
    ELSE NoApp

Unauthorized(op, token, application_id, err) ==
    /\ last' = ProtectedRequest(op, token, application_id, GhostId, err, AppById(application_id))
    /\ UNCHANGED <<users, apps, app_seq, tokens, pending, redis_url, redis_conn, store_up,
                   counters, now>>

AuthFrame == <<users, tokens, pending, redis_url, redis_conn, store_up, counters, now>>

\* Request values: a JSON value or an explicit null.
Val(x) == [null |-> FALSE, v |-> x]
NullVal == [null |-> TRUE]
Unwrap(val) == IF val.null THEN Null ELSE val.v

\* A request body: every field of the schema, the ones not sent marked Unset.
Unset == [unset |-> TRUE]
KeysSet(payload) == {f \in DOMAIN payload : payload[f] # Unset}

NotNullColumns == {"company_name", "job_title", "status", "date_applied"}

\* Base's declarative constructor: a keyword that is no attribute of the class
\* is a TypeError.
ApplicationInit(kwargs) == kwargs \subseteq ApplicationColumns

\* ------------------------------------------------------ POST /applications/
create_application(token, data) ==
    LET auth == get_current_user(token, now) IN
    IF ~auth.ok THEN Unauthorized("create", token, GhostId, auth.err)
    ELSE IF ~ApplicationInit({"user_id"} \cup ApplicationCreateFields)
    THEN /\ last' = ProtectedRequest("create", token, GhostId, auth.user.id,
                                     internal_server_error, NoApp)
         /\ UNCHANGED <<apps, app_seq>>
         /\ UNCHANGED AuthFrame
    ELSE LET new_application == ApplicationRow(app_seq + 1, auth.user.id, data, now)
             resp == ApplicationResponse(new_application, NoExtra)
         IN  /\ app_seq < MaxApps
             /\ apps' = apps \cup {new_application}
             /\ app_seq' = app_seq + 1
             /\ last' = ProtectedRequest("create", token, new_application.id, auth.user.id,
                                         IF resp.status = 200 THEN [resp EXCEPT !.status = 201]
                                         ELSE resp, NoApp)
             /\ UNCHANGED AuthFrame

\* conftest.create_application: a row added through the ORM session directly.
SeedApplication(user_id, data) ==
    /\ app_seq < MaxApps
    /\ \E u \in users : u.id = user_id
    /\ apps' = apps \cup {ApplicationRow(app_seq + 1, user_id, data, now)}
    /\ app_seq' = app_seq + 1
    /\ last' = [NoRequest EXCEPT !.op = "seed", !.app_id = app_seq + 1, !.caller = user_id,
                                 !.at = now]
    /\ UNCHANGED AuthFrame

\* ------------------------------------------------- GET /applications/{id}
get_application(token, application_id) ==
    LET auth == get_current_user(token, now) IN
    IF ~auth.ok THEN Unauthorized("get", token, application_id, auth.err)
    ELSE LET application == OwnedApplication(application_id, auth.user.id) IN
         /\ last' = ProtectedRequest("get", token, application_id, auth.user.id,
                                     IF application = NoApp THEN not_found
                                     ELSE ApplicationResponse(application, NoExtra),
                                     AppById(application_id))
         /\ UNCHANGED <<apps, app_seq>>
         /\ UNCHANGED AuthFrame

\* ------------------------------------------------- PUT /applications/{id}
\* setattr for every key of dict(exclude_unset=True): a column is written, any
\* other key becomes a plain attribute of the object.  onupdate stamps
\* updated_at when the flush emits an UPDATE, that is when a column changed.
SetAttrs(row, payload) ==
    [f \in DOMAIN row |-> IF f \in KeysSet(payload) THEN Unwrap(payload[f]) ELSE row[f]]

update_application(token, application_id, payload) ==
    LET auth == get_current_user(token, now) IN
    IF ~auth.ok THEN Unauthorized("update", token, application_id, auth.err)
    ELSE LET application == OwnedApplication(application_id, auth.user.id) IN
         IF application = NoApp
         THEN /\ last' = ProtectedRequest("update", token, application_id, auth.user.id,
                                          not_found, AppById(application_id))
              /\ UNCHANGED <<apps, app_seq>>
              /\ UNCHANGED AuthFrame
         ELSE IF \E f \in KeysSet(payload) \cap NotNullColumns : payload[f].null
         THEN /\ last' = ProtectedRequest("update", token, application_id, auth.user.id,
                                          internal_server_error, application)
              /\ UNCHANGED <<apps, app_seq>>
              /\ UNCHANGED AuthFrame
         ELSE LET written == SetAttrs(application, payload)
                  stored == IF written = application THEN application
                            ELSE [written EXCEPT !.updated_at = now]
                  extra == [f \in KeysSet(payload) \ ApplicationColumns |-> payload[f]]
              IN  /\ apps' = (apps \ {application}) \cup {stored}
                  /\ last' = ProtectedRequest("update", token, application_id, auth.user.id,
                                              ApplicationResponse(stored, extra), application)
                  /\ UNCHANGED app_seq
                  /\ UNCHANGED AuthFrame

\* ---------------------------------------------- DELETE /applications/{id}
\* Mutant: the delete removes every row of the caller.
delete_application_AllOfOwner(token, application_id) ==
    LET auth == get_current_user(token, now)
        application == OwnedApplication(application_id, auth.user.id)
    IN  /\ auth.ok
        /\ application # NoApp
        /\ apps' = {a \in apps : a.user_id # auth.user.id}
        /\ last' = ProtectedRequest("delete", token, application_id, auth.user.id,
                                    Ok(204, NoBody), application)
        /\ UNCHANGED app_seq
        /\ UNCHANGED AuthFrame

delete_application(token, application_id) ==
    LET auth == get_current_user(token, now) IN
    IF ~auth.ok THEN Unauthorized("delete", token, application_id, auth.err)
    ELSE LET application == OwnedApplication(application_id, auth.user.id) IN
         IF application = NoApp
         THEN /\ last' = ProtectedRequest("delete", token, application_id, auth.user.id,
                                          not_found, AppById(application_id))
              /\ UNCHANGED <<apps, app_seq>>
              /\ UNCHANGED AuthFrame
         ELSE /\ apps' = apps \ {application}
              /\ last' = ProtectedRequest("delete", token, application_id, auth.user.id,
                                          Ok(204, NoBody), application)
              /\ UNCHANGED app_seq
              /\ UNCHANGED AuthFrame

\* ---------------------------------------- PATCH /applications/{id}/archive
\* Mutant: the flip without the onupdate stamp.
Toggled_NoStamp(application, t) ==
    [application EXCEPT !.is_archived = ~application.is_archived]

Toggled(application, t) ==
    [application EXCEPT !.is_archived = ~application.is_archived, !.updated_at = t]

\* Mutant: the flag is flipped by id before the ownership check.
toggle_archive_FlipFirst(token, application_id) ==
    LET auth == get_current_user(token, now)
        target == AppById(application_id)
    IN  /\ auth.ok
        /\ target # NoApp
        /\ apps' = (apps \ {target}) \cup {Toggled(target, now)}
        /\ last' = ProtectedRequest("toggle", token, application_id, auth.user.id,
                                    IF target.user_id = auth.user.id
                                    THEN ApplicationResponse(Toggled(target, now), NoExtra)
                                    ELSE not_found, target)
        /\ UNCHANGED app_seq
        /\ UNCHANGED AuthFrame

toggle_archive(token, application_id) ==
    LET auth == get_current_user(token, now) IN
    IF ~auth.ok THEN Unauthorized("toggle", token, application_id, auth.err)
    ELSE LET application == OwnedApplication(application_id, auth.user.id) IN
         IF application = NoApp
         THEN /\ last' = ProtectedRequest("toggle", token, application_id, auth.user.id,
                                          not_found, AppById(application_id))
              /\ UNCHANGED <<apps, app_seq>>
              /\ UNCHANGED AuthFrame
         ELSE LET stored == Toggled(application, now) IN
              /\ apps' = (apps \ {application}) \cup {stored}
              /\ last' = ProtectedRequest("toggle", token, application_id, auth.user.id,
                                          ApplicationResponse(stored, NoExtra), application)
              /\ UNCHANGED app_seq
              /\ UNCHANGED AuthFrame

\* toggle_archive as two instances of the application run it side by side:
\* the query that loads the row, and later the commit.  The flush writes the
\* attributes that were assigned, UPDATE applications SET is_archived = <not
\* the value read>, updated_at = <now> WHERE id = <id>; nothing locks the row
\* between the two.  req tells the requests in flight apart.
toggle_archive_read(req, token, application_id) ==
    LET auth == get_current_user(token, now)
        application == OwnedApplication(application_id, auth.user.id)
    IN  /\ auth.ok
        /\ application # NoApp
        /\ \A p \in pending : p.req # req
        /\ pending' = pending \cup {[op |-> "toggle", req |-> req, token |-> token,
                                      caller |-> auth.user.id, read |-> application]}
        /\ UNCHANGED <<users, apps, app_seq, tokens, redis_url, redis_conn, store_up,
                       counters, now, last>>

toggle_archive_commit(p) ==
    /\ p \in pending
    /\ p.op = "toggle"
    /\ AppById(p.read.id) # NoApp
    /\ LET stored == [AppById(p.read.id) EXCEPT !.is_archived = ~p.read.is_archived,
                                                !.updated_at = now]
       IN  /\ apps' = (apps \ {AppById(p.read.id)}) \cup {stored}
           /\ last' = ProtectedRequest("toggle", p.token, p.read.id, p.caller,
                                       ApplicationResponse(stored, NoExtra), p.read)
    /\ pending' = pending \ {p}
    /\ UNCHANGED <<users, app_seq, tokens, redis_url, redis_conn, store_up, counters, now>>

\* ---------------------------------------------------- GET /applications/
UpperLetters == <<"A", "B", "C", "D", "E", "F", "G", "H", "I", "J", "K", "L", "M",
                  "N", "O", "P", "Q", "R", "S", "T", "U", "V", "W", "X", "Y", "Z">>
LowerLetters == <<"a", "b", "c", "d", "e", "f", "g", "h", "i", "j", "k", "l", "m",
                  "n", "o", "p", "q", "r", "s", "t", "u", "v", "w", "x", "y", "z">>

Lower(c) ==
    IF \E i \in 1..Len(UpperLetters) : UpperLetters[i] = c
    THEN LowerLetters[CHOOSE i \in 1..Len(UpperLetters) : UpperLetters[i] = c]
    ELSE c

\* SQL ILIKE: % matches any run of characters, _ any one character.
RECURSIVE LikeFrom(_, _, _, _)
LikeFrom(str, i, pattern, j) ==
    IF j > Len(pattern) THEN i > Len(str)
    ELSE IF pattern[j] = "%"
    THEN LikeFrom(str, i, pattern, j + 1) \/ (i <= Len(str) /\ LikeFrom(str, i + 1, pattern, j))
    ELSE IF i > Len(str) THEN FALSE
    ELSE IF pattern[j] = "_" THEN LikeFrom(str, i + 1, pattern, j + 1)
    ELSE Lower(str[i]) = Lower(pattern[j]) /\ LikeFrom(str, i + 1, pattern, j + 1)

ilike(str, pattern) == LikeFrom(str, 1, pattern, 1)

NoStatus == ""
NoSearch == <<>>

\* Mutant: the archived filter applies only when no status is asked for.
ListQuery_StatusInsteadOfArchived(user_id, status, search, is_archived) ==
    {a \in apps :
        /\ a.user_id = user_id
        /\ (status = NoStatus => a.is_archived = is_archived)
        /\ (status # NoStatus => a.status = status)
        /\ (search # NoSearch => ilike(a.company_name, <<"%">> \o search \o <<"%">>))}

\* The rows the query of get_applications selects.
ListQuery(user_id, status, search, is_archived) ==
    {a \in apps :
        /\ a.user_id = user_id
        /\ a.is_archived = is_archived
        /\ (status # NoStatus => a.status = status)
        /\ (search # NoSearch => ilike(a.company_name, <<"%">> \o search \o <<"%">>))}

\* order_by(date_applied.desc()): rows of equal date come in any order.
Orderings(rows) ==
    {seq \in [1..Cardinality(rows) -> rows] :
        /\ \A i, j \in 1..Cardinality(rows) : i # j => seq[i] # seq[j]
        /\ \A i, j \in 1..Cardinality(rows) : i < j => seq[i].date_applied >= seq[j].date_applied}

\* offset(skip).limit(limit)
Page(seq, skip, limit) ==
    IF skip >= Len(seq) \/ limit = 0 THEN <<>>
    ELSE SubSeq(seq, skip + 1, IF skip + limit < Len(seq) THEN skip + limit ELSE Len(seq))

\* response_model=List[ApplicationResponse]: one row that fails validation fails
\* the response.
ListResponse(page) ==
    IF \E i \in 1..Len(page) : ApplicationResponse(page[i], NoExtra).status # 200
    THEN internal_server_error
    ELSE Ok(200, [kind |-> "list",
                  items |-> [i \in 1..Len(page) |-> ApplicationResponse(page[i], NoExtra).body]])

get_applications(token, status, search, is_archived, skip, limit) ==
    LET auth == get_current_user(token, now) IN
    IF ~auth.ok THEN Unauthorized("list", token, GhostId, auth.err)
    ELSE \E seq \in Orderings(ListQuery(auth.user.id, status, search, is_archived)) :
            /\ last' = [ProtectedRequest("list", token, GhostId, auth.user.id,
                                         ListResponse(Page(seq, skip, limit)), NoApp)
                           EXCEPT !.query = [NoQuery EXCEPT !.status = status,
                                                            !.search = search,
                                                            !.is_archived = is_archived,
                                                            !.skip = skip, !.limit = limit],
                                  !.returned = Page(seq, skip, limit)]
            /\ UNCHANGED <<apps, app_seq>>
            /\ UNCHANGED AuthFrame

\* ------------------------------------------------------- GET /analytics/*
\* Mutant: the user_id filter left out of the analytics queries.
Active_AllUsers(user_id) == {a \in apps : ~a.is_archived}

\* filter(user_id == current_user.id, is_archived == False)
Active(user_id) == {a \in apps : a.user_id = user_id /\ ~a.is_archived}

\* Mutant: the second decimal is cut off instead of rounded.
RoundedRate_Truncated(offers, total) == (offers * 10000) \div total

\* round(x, 2) of 100 * offers / total, in hundredths (ties to even).
RoundedRate(offers, total) ==
    LET q == (offers * 10000) \div total
        r == (offers * 10000) % total
    IN  IF 2 * r < total THEN q
        ELSE IF 2 * r > total THEN q + 1
        ELSE IF q % 2 = 0 THEN q ELSE q + 1

\* Mutant: the breakdown filled with a zero for every status that is absent.
AnalyticsSummary_ZeroFilled(user_id, today) ==
    LET rows == Active(user_id)
        total == Cardinality(rows)
        status_breakdown == [st \in ApplicationStatus |-> Cardinality({a \in rows : a.status = st})]
        offers == status_breakdown["offer"] + status_breakdown["accepted"]
    IN  [kind |-> "summary",
         total_applications |-> total,
         status_breakdown |-> status_breakdown,
         applications_this_week |-> Cardinality({a \in rows : a.date_applied >= today - 7}),
         applications_this_month |-> Cardinality({a \in rows : a.date_applied >= today - 30}),
         success_rate |-> IF total > 0 THEN RoundedRate(offers, total) ELSE 0]

\* The body get_analytics_summary returns.
AnalyticsSummary(user_id, today) ==
    LET rows == Active(user_id)
        total == Cardinality(rows)
        present == {a.status : a \in rows}
        status_breakdown == [st \in present |-> Cardinality({a \in rows : a.status = st})]
        week_ago == today - 7
        month_ago == today - 30
        count(st) == IF st \in present THEN status_breakdown[st] ELSE 0
        offers == count("offer") + count("accepted")
    IN  [kind |-> "summary",
         total_applications |-> total,
         status_breakdown |-> status_breakdown,
         applications_this_week |-> Cardinality({a \in rows : a.date_applied >= week_ago}),
         applications_this_month |-> Cardinality({a \in rows : a.date_applied >= month_ago}),
         success_rate |-> IF total > 0 THEN RoundedRate(offers, total) ELSE 0]

get_analytics_summary(token) ==
    LET auth == get_current_user(token, now) IN
    IF ~auth.ok THEN Unauthorized("summary", token, GhostId, auth.err)
    ELSE /\ last' = ProtectedRequest("summary", token, GhostId, auth.user.id,
                                     Ok(200, AnalyticsSummary(auth.user.id, now)), NoApp)
         /\ UNCHANGED <<apps, app_seq>>
         /\ UNCHANGED AuthFrame

\* The queries of get_analytics_summary one at a time.  The session runs in
\* the database's default isolation, where every statement reads the rows
\* committed when it starts, so requests of other processes commit between
\* two of them.  The in-flight request keeps the local variables.
\* db.query(Application).filter(...).count()
summary_total(token) ==
    LET auth == get_current_user(token, now) IN
    /\ auth.ok
    /\ pending = {}
    /\ pending' = {[op |-> "summary", next |-> "status_counts", token |-> token,
                    caller |-> auth.user.id,
                    total |-> Cardinality(Active(auth.user.id)),
                    status_breakdown |-> [st \in {} |-> 0], this_week |-> 0]}
    /\ UNCHANGED <<users, apps, app_seq, tokens, redis_url, redis_conn, store_up,
                   counters, now, last>>

\* db.query(status, func.count(id)).filter(...).group_by(status).all()
summary_status_counts(p) ==
    /\ p \in pending /\ p.op = "summary" /\ p.next = "status_counts"
    /\ LET rows == Active(p.caller)
           present == {a.status : a \in rows}
       IN  pending' = {[p EXCEPT !.next = "this_week",
                                 !.status_breakdown =
                                     [st \in present |-> Cardinality({a \in rows : a.status = st})]]}
    /\ UNCHANGED <<users, apps, app_seq, tokens, redis_url, redis_conn, store_up,
                   counters, now, last>>

\* week_ago = today - 7; the count of the rows applied since.
summary_this_week(p) ==
    /\ p \in pending /\ p.op = "summary" /\ p.next = "this_week"
    /\ LET week_ago == now - 7 IN
       pending' = {[p EXCEPT !.next = "this_month",
                             !.this_week = Cardinality({a \in Active(p.caller) :
                                                           a.date_applied >= week_ago})]}
    /\ UNCHANGED <<users, apps, app_seq, tokens, redis_url, redis_conn, store_up,
                   counters, now, last>>

\* month_ago = today - 30, the last count, and the body put together from
\* the four results.
summary_this_month(p) ==
    /\ p \in pending /\ p.op = "summary" /\ p.next = "this_month"
    /\ LET month_ago == now - 30
           this_month == Cardinality({a \in Active(p.caller) : a.date_applied >= month_ago})
           count(st) == IF st \in DOMAIN p.status_breakdown THEN p.status_breakdown[st] ELSE 0
           offers == count("offer") + count("accepted")
       IN  last' = ProtectedRequest("summary", p.token, GhostId, p.caller,
                       Ok(200, [kind |-> "summary",
                                total_applications |-> p.total,
                                status_breakdown |-> p.status_breakdown,
                                applications_this_week |-> p.this_week,
                                applications_this_month |-> this_month,
                                success_rate |-> IF p.total > 0
                                                 THEN RoundedRate(offers, p.total) ELSE 0]),
                       NoApp)
    /\ pending' = {}
    /\ UNCHANGED <<users, apps, app_seq, tokens, redis_url, redis_conn, store_up,
                   counters, now>>

RECURSIVE Ascending(_)
Ascending(S) ==
    IF S = {} THEN <<>>
    ELSE LET m == CHOOSE x \in S : \A y \in S : x <= y IN <<m>> \o Ascending(S \ {m})

\* Mutant: one entry for every day of the window, zero counts included.
TimelineData_Dense(user_id, days, today) ==
    LET start_date == IF today - days < 0 THEN 0 ELSE today - days
        rows == {a \in Active(user_id) : a.date_applied >= start_date}
    IN  [i \in 1..(today - start_date + 1) |->
            [date |-> start_date + i - 1,
             count |-> Cardinality({a \in rows : a.date_applied = start_date + i - 1})]]

\* The body get_timeline returns.
TimelineData(user_id, days, today) ==
    LET start_date == today - days
        rows == {a \in Active(user_id) : a.date_applied >= start_date}
        dates == Ascending({a.date_applied : a \in rows})
    IN  [i \in 1..Len(dates) |->
            [date |-> dates[i], count |-> Cardinality({a \in rows : a.date_applied = dates[i]})]]

get_timeline(token, days) ==
    LET auth == get_current_user(token, now) IN
    IF ~auth.ok THEN Unauthorized("timeline", token, GhostId, auth.err)
    ELSE /\ last' = [ProtectedRequest("timeline", token, GhostId, auth.user.id,
                                      Ok(200, [kind |-> "timeline",
                                               items |-> TimelineData(auth.user.id, days, now)]),
                                      NoApp)
                        EXCEPT !.query = [NoQuery EXCEPT !.days = days]]
         /\ UNCHANGED <<apps, app_seq>>
         /\ UNCHANGED AuthFrame

\* ------------------------------------------------------------ request inputs
Google == <<"G", "o", "o", "g", "l", "e">>

NewApplication(status, date_applied) ==
    [company_name |-> Google, job_title |-> "Engineer", status |-> status,
     date_applied |-> date_applied, job_url |-> Null, notes |-> Null]

CreateInputs == {NewApplication("offer", 0)}

EmptyUpdate == [f \in ApplicationCreateFields |-> Unset]

\* Mutant: the schema keeps the keys of the body it does not declare.
ApplicationUpdate_AllowExtra(body) ==
    [f \in ApplicationCreateFields \cup DOMAIN body |->
        IF f \in DOMAIN body THEN body[f] ELSE Unset]

\* ApplicationUpdate: the request body parsed by the schema; keys the schema
\* does not declare are dropped, declared keys the body lacks are unset.
ApplicationUpdate(body) ==
    [f \in ApplicationCreateFields |-> IF f \in DOMAIN body THEN body[f] ELSE Unset]

UpdateInputs ==
    {EmptyUpdate,
     [EmptyUpdate EXCEPT !["status"] = Val("rejected"),
                         !["follow_up_date"] = NullVal, !["last_contact_date"] = NullVal],
     [EmptyUpdate EXCEPT !["status"] = NullVal]}

AppIds == 1..MaxApps

\* ------------------------------------------------------------ specifications
\* The deployment of the test suite: no counter store configured.  Clients
\* register one at a time and log in once per account.
LoggedIn(email) == \E t \in tokens : t.sub = UserByEmail(email).id

SessionTokens == tokens \cup {MissingToken}

Init == InitCommon /\ redis_url = FALSE

Next ==
    \/ \E email \in Emails :
          pending = {} /\ register("10.0.0.1", email, PwGood, "Ann", "s1", TRUE, ConnectionError)
    \/ \E p \in pending : RegisterCommit(p)
    \/ \E username \in Emails :
          ~LoggedIn(username) /\ login("10.0.0.1", username, PwGood, TRUE, ConnectionError)
    \/ \E token \in SessionTokens, data \in CreateInputs : create_application(token, data)
    \/ \E u \in users, data \in CreateInputs : apps = {} /\ SeedApplication(u.id, data)
    \/ \E token \in SessionTokens, id \in AppIds : get_application(token, id)
    \/ \E token \in SessionTokens, id \in AppIds, payload \in UpdateInputs :
          update_application(token, id, payload)
    \/ \E token \in SessionTokens, id \in AppIds : delete_application(token, id)
    \/ \E token \in SessionTokens, id \in AppIds : toggle_archive(token, id)
    \/ \E token \in SessionTokens, is_archived \in BOOLEAN :
          get_applications(token, NoStatus, NoSearch, is_archived, 0, 100)
    \/ \E token \in SessionTokens : get_analytics_summary(token)
    \/ \E token \in SessionTokens : get_timeline(token, 30)
    \/ Tick

Spec == Init /\ [][Next]_vars

\* Two accounts side by side, each with its own rows, reading their lists
\* and analytics while the other one changes its rows; the clock stands still.
NextTenant ==
    \/ \E email \in Emails :
          pending = {} /\ register("10.0.0.1", email, PwGood, "Ann", "s1", TRUE, ConnectionError)
    \/ \E p \in pending : RegisterCommit(p)
    \/ \E username \in Emails :
          ~LoggedIn(username) /\ login("10.0.0.1", username, PwGood, TRUE, ConnectionError)
    \/ \E u \in users, data \in CreateInputs : SeedApplication(u.id, data)
    \/ \E token \in tokens, id \in AppIds :
          update_application(token, id, [EmptyUpdate EXCEPT !["status"] = Val("rejected")])
    \/ \E token \in tokens, id \in AppIds : delete_application(token, id)
    \/ \E token \in tokens, id \in AppIds : toggle_archive(token, id)
    \/ \E token \in tokens, is_archived \in BOOLEAN :
          get_applications(token, NoStatus, NoSearch, is_archived, 0, 100)
    \/ \E token \in tokens : get_analytics_summary(token)
    \/ \E token \in tokens : get_timeline(token, 30)

SpecTenant == Init /\ [][NextTenant]_vars

\* Two accounts and the requests that name a row by its id.
NextById ==
    \/ \E email \in Emails :
          pending = {} /\ register("10.0.0.1", email, PwGood, "Ann", "s1", TRUE, ConnectionError)
    \/ \E p \in pending : RegisterCommit(p)
    \/ \E username \in Emails :
          ~LoggedIn(username) /\ login("10.0.0.1", username, PwGood, TRUE, ConnectionError)
    \/ \E u \in users, data \in CreateInputs : SeedApplication(u.id, data)
    \/ \E token \in tokens, id \in AppIds : get_application(token, id)
    \/ \E token \in tokens, id \in AppIds, payload \in UpdateInputs :
          update_application(token, id, payload)
    \/ \E token \in tokens, id \in AppIds : delete_application(token, id)
    \/ \E token \in tokens, id \in AppIds : toggle_archive(token, id)

SpecById == Init /\ [][NextById]_vars

\* One account and every kind of token a client can present, on every
\* protected endpoint, while the clock runs past the tokens' expiry.
NextTokens ==
    \/ pending = {} /\ register("10.0.0.1", "a@x.io", PwGood, "Ann", "s1", TRUE, ConnectionError)
    \/ \E p \in pending : RegisterCommit(p)
    \/ login("10.0.0.1", "a@x.io", PwGood, TRUE, ConnectionError)
    \/ \E token \in PresentedTokens : get_current_user_info(token)
    \/ \E token \in PresentedTokens, data \in CreateInputs : create_application(token, data)
    \/ \E u \in users, data \in CreateInputs : apps = {} /\ SeedApplication(u.id, data)
    \/ \E token \in PresentedTokens : get_application(token, 1)
    \/ \E token \in PresentedTokens :
          update_application(token, 1, [EmptyUpdate EXCEPT !["status"] = Val("rejected")])
    \/ \E token \in PresentedTokens : delete_application(token, 1)
    \/ \E token \in PresentedTokens : toggle_archive(token, 1)
    \/ \E token \in PresentedTokens : get_applications(token, NoStatus, NoSearch, FALSE, 0, 100)
    \/ \E token \in PresentedTokens : get_analytics_summary(token)
    \/ \E token \in PresentedTokens : get_timeline(token, 30)
    \/ Tick

SpecTokens == Init /\ [][NextTokens]_vars

\* The counter store is configured.  Register requests run concurrently: two
\* of them may both be past the email check before either commits.
InitRedis == InitCommon /\ redis_url = TRUE

NextRegister ==
    \/ \E email \in Emails, password \in {PwGood, PwWeak}, salt \in Salts, expire_ok \in BOOLEAN :
          Cardinality(pending) < 2 /\ register("10.0.0.1", email, password, "Ann", salt, expire_ok, ConnectionError)
    \/ \E p \in pending : RegisterCommit(p)
    \/ Tick

SpecRegister == InitRedis /\ [][NextRegister]_vars

\* The counter store is configured and may fail and come back.  Accounts
\* register one at a time; logins carry the right or a wrong password.
NextLogin ==
    \/ \E email \in Emails :
          pending = {} /\ register("10.0.0.1", email, PwGood, "Ann", "s1", TRUE, ConnectionError)
    \/ \E p \in pending : RegisterCommit(p)
    \/ \E username \in Emails, password \in {PwGood, PwOther}, expire_ok \in BOOLEAN :
          login("10.0.0.1", username, password, expire_ok, ConnectionError)
    \/ \E token \in tokens : get_current_user_info(token)
    \/ Tick
    \/ StoreDown
    \/ StoreUp

SpecLogin == InitRedis /\ [][NextLogin]_vars

\* The tables as the test helpers fill them: two accounts, the first one
\* logged in and owning any of up to MaxRows rows of every status, date and
\* archived flag, the second one owning one active row.  The requests read.
Alice == NewUserRow(1, "a@x.io", get_password_hash(PwGood, "s1"), "Ann")
Bob == NewUserRow(2, "b@x.io", get_password_hash(PwGood, "s1"), "Ann")

AliceToken == create_access_token(Alice.id, 0, ACCESS_TOKEN_EXPIRE_MINUTES)
BobToken == create_access_token(Bob.id, 0, ACCESS_TOKEN_EXPIRE_MINUTES)

NoRow == [status |-> "", date_applied |-> 0, is_archived |-> FALSE]

RowChoices ==
    {NoRow} \cup [status : {"applied", "offer", "accepted"}, date_applied : {0, 1},
                  is_archived : BOOLEAN]

StoredRow(id, user_id, choice) ==
    [ApplicationRow(id, user_id, NewApplication(choice.status, choice.date_applied), 0)
        EXCEPT !.is_archived = choice.is_archived]

BobsRow == StoredRow(MaxRows + 1, Bob.id, [status |-> "offer", date_applied |-> 1,
                                           is_archived |-> FALSE])

InitAnalytics ==
    /\ users = {Alice, Bob}
    /\ tokens = {AliceToken}
    /\ \E f \in [1..MaxRows -> RowChoices] :
          apps = {StoredRow(i, Alice.id, f[i]) : i \in {j \in 1..MaxRows : f[j] # NoRow}}
                    \cup {BobsRow}
    /\ app_seq = MaxRows + 1
    /\ pending = {}
    /\ redis_url = FALSE
    /\ redis_conn = FALSE
    /\ store_up = TRUE
    /\ counters = [k \in RateKeys |-> NoCounter]
    /\ now = 1
    /\ last = NoRequest

NextAnalytics ==
    \/ \E token \in tokens : get_analytics_summary(token)
    \/ \E token \in tokens, days \in {0, 1, 30} : get_timeline(token, days)

SpecAnalytics == InitAnalytics /\ [][NextAnalytics]_vars

\* The first account owning any of up to MaxRows rows of two company names,
\* two statuses and either archived flag (row i applied on day i), listing
\* them under every combination of filters.
Acme == <<"a", "_", "b">>

ListChoices ==
    {NoRow} \cup [status : {"applied", "offer"}, company_name : {Google, Acme},
                  is_archived : BOOLEAN]

ListedRow(id, user_id, choice) ==
    [ApplicationRow(id, user_id, NewApplication(choice.status, id), 0)
        EXCEPT !.is_archived = choice.is_archived, !.company_name = choice.company_name]

Searches == {NoSearch, <<"O", "G">>, <<"_">>, <<"g", "%", "e">>}

InitList ==
    /\ users = {Alice, Bob}
    /\ tokens = {AliceToken}
    /\ \E f \in [1..MaxRows -> ListChoices] :
          apps = {ListedRow(i, Alice.id, f[i]) : i \in {j \in 1..MaxRows : f[j] # NoRow}}
                    \cup {BobsRow}
    /\ app_seq = MaxRows + 1
    /\ pending = {}
    /\ redis_url = FALSE
    /\ redis_conn = FALSE
    /\ store_up = TRUE
    /\ counters = [k \in RateKeys |-> NoCounter]
    /\ now = 1
    /\ last = NoRequest

NextList ==
    \E token \in tokens, status \in {NoStatus, "offer"}, search \in Searches,
       is_archived \in BOOLEAN :
          get_applications(token, status, search, is_archived, 0, 100)

SpecList == InitList /\ [][NextList]_vars

\* The counter store is configured and stays reachable.  Requests of one
\* client address run concurrently: registers of different emails may be
\* between their email check and their commit, and the expiry call of a first
\* request may reach the store after later increments.
NextLimiter ==
    \/ \E email \in Emails, password \in {PwGood, PwWeak}, expire_ok \in BOOLEAN :
          /\ \A p \in pending : p.email # email
          /\ register("10.0.0.1", email, password, "Ann", "s1", expire_ok, ConnectionError)
    \/ \E p \in pending : RegisterCommit(p)
    \/ \E username \in Emails, expire_ok \in BOOLEAN :
          login("10.0.0.1", username, PwGood, expire_ok, ConnectionError)
    \/ expire(<<"login", "10.0.0.1">>, RATE_LIMIT_LOGIN_WINDOW)
    \/ expire(<<"register", "10.0.0.1">>, RATE_LIMIT_REGISTER_WINDOW)
    \/ Tick

SpecLimiter == InitRedis /\ [][NextLimiter]_vars

\* Any deployment, with or without a counter store; a configured store may
\* fail at any moment, refusing connections or not answering them.
InitStore == InitCommon /\ redis_url \in BOOLEAN

NextStore ==
    \/ \E email \in Emails, expire_ok \in BOOLEAN, connect_error \in ConnectErrors :
          /\ pending = {}
          /\ register("10.0.0.1", email, PwGood, "Ann", "s1", expire_ok, connect_error)
    \/ \E p \in pending : RegisterCommit(p)
    \/ \E username \in Emails, expire_ok \in BOOLEAN, connect_error \in ConnectErrors :
          login("10.0.0.1", username, PwGood, expire_ok, connect_error)
    \/ Tick
    \/ StoreDown
    \/ StoreUp

SpecStore == InitStore /\ [][NextStore]_vars

\* Two logged-in accounts at time 0 with no rows yet.
InitOwner ==
    /\ users = {Alice, Bob}
    /\ tokens = {AliceToken, BobToken}
    /\ apps = {}
    /\ app_seq = 0
    /\ pending = {}
    /\ redis_url = FALSE
    /\ redis_conn = FALSE
    /\ store_up = TRUE
    /\ counters = [k \in RateKeys |-> NoCounter]
    /\ now = 0
    /\ last = NoRequest

\* Update bodies that carry both date keys (the ones answered 200): no
\* column, a status equal to the stored one, a different status.
BothDates ==
    [EmptyUpdate EXCEPT !["follow_up_date"] = NullVal, !["last_contact_date"] = NullVal]

StampInputs ==
    {EmptyUpdate, BothDates,
     [BothDates EXCEPT !["status"] = Val("offer")],
     [BothDates EXCEPT !["status"] = Val("rejected")]}

\* Rows of the first account are updated and toggled, by their owner and by
\* the other account, while the clock runs.
NextStamp ==
    \/ \E data \in CreateInputs : SeedApplication(Alice.id, data)
    \/ \E token \in tokens, id \in AppIds, payload \in StampInputs :
          update_application(token, id, payload)
    \/ \E token \in tokens, id \in AppIds : toggle_archive(token, id)
    \/ Tick

SpecStamp == InitOwner /\ [][NextStamp]_vars

\* The deployment of the test suite, no counter store: clients send register
\* requests with passwords of every kind, two of them at a time.
NextSignup ==
    \/ \E email \in Emails, password \in RulePasswords, salt \in Salts :
          /\ Cardinality(pending) < 2
          /\ register("10.0.0.1", email, password, "Ann", salt, TRUE, ConnectionError)
    \/ \E p \in pending : RegisterCommit(p)

SpecSignup == Init /\ [][NextSignup]_vars

\* JSON bodies of update requests that name columns the schema does not
\* declare: the archived flag, the owner, the identifier.
FrameBodies ==
    {[is_archived |-> Val(TRUE)],
     [user_id |-> Val(Bob.id), id |-> Val(MaxApps + 1)],
     [status |-> Val("rejected"), is_archived |-> Val(TRUE), user_id |-> Val(Bob.id),
      follow_up_date |-> NullVal, last_contact_date |-> NullVal]}

NextFrame ==
    \/ \E u \in users, data \in CreateInputs : SeedApplication(u.id, data)
    \/ \E token \in tokens, id \in AppIds, body \in FrameBodies :
          update_application(token, id, ApplicationUpdate(body))
    \/ \E token \in tokens, id \in AppIds : toggle_archive(token, id)
    \/ \E token \in tokens, id \in AppIds : delete_application(token, id)

SpecFrame == InitOwner /\ [][NextFrame]_vars

\* Rows of every status; updates that set every status, with the body of
\* test_update_application (no date keys); creates with every status.
NextStatus ==
    \/ \E u \in users, st \in ApplicationStatus : SeedApplication(u.id, NewApplication(st, 0))
    \/ \E token \in tokens, id \in AppIds, st \in ApplicationStatus :
          update_application(token, id, [EmptyUpdate EXCEPT !["status"] = Val(st)])
    \/ \E token \in tokens, st \in ApplicationStatus :
          create_application(token, NewApplication(st, 0))

SpecStatus == InitOwner /\ [][NextStatus]_vars

\* Lists of every page position and size over tables of rows with equal and
\* different dates.
NextPage ==
    \E token \in tokens, is_archived \in BOOLEAN, skip \in 0..MaxRows, limit \in 0..MaxRows :
        get_applications(token, NoStatus, NoSearch, is_archived, skip, limit)

SpecPage == InitAnalytics /\ [][NextPage]_vars

\* The counter store is configured and may fail and come back.  One client
\* address keeps sending registers with valid and invalid passwords, for free
\* and for taken emails, and logins with right and wrong passwords.
NextReject ==
    \/ \E email \in Emails, password \in {PwGood, PwWeak}, connect_error \in ConnectErrors :
          /\ pending = {}
          /\ register("10.0.0.1", email, password, "Ann", "s1", TRUE, connect_error)
    \/ \E p \in pending : RegisterCommit(p)
    \/ \E username \in Emails, password \in {PwGood, PwOther}, connect_error \in ConnectErrors :
          login("10.0.0.1", username, password, TRUE, connect_error)
    \/ Tick
    \/ StoreDown
    \/ StoreUp

SpecReject == InitRedis /\ [][NextReject]_vars

\* Toggle requests of the owners handled by two instances at a time.
NextToggle ==
    \/ \E u \in users, data \in CreateInputs : SeedApplication(u.id, data)
    \/ \E req \in 1..2, token \in tokens, id \in AppIds :
          toggle_archive_read(req, token, id)
    \/ \E p \in pending : toggle_archive_commit(p)

SpecToggle == InitOwner /\ [][NextToggle]_vars

\* The owners' rows are put in place; then a summary is computed query by
\* query while other instances update, archive and delete the rows.
NextSummary ==
    \/ \E u \in users, data \in CreateInputs :
          pending = {} /\ SeedApplication(u.id, data)
    \/ \E token \in tokens : summary_total(token)
    \/ \E p \in pending : summary_status_counts(p)
    \/ \E p \in pending : summary_this_week(p)
    \/ \E p \in pending : summary_this_month(p)
    \/ \E token \in tokens, id \in AppIds :
          update_application(token, id, [BothDates EXCEPT !["status"] = Val("rejected")])
    \/ \E token \in tokens, id \in AppIds : toggle_archive(token, id)
    \/ \E token \in tokens, id \in AppIds : delete_application(token, id)

SpecSummary == InitOwner /\ [][NextSummary]_vars

\* Two logged-in accounts adding, changing and deleting rows and reading
\* them back by id, in lists and in the analytics.
InitDelete ==
    /\ users = {Alice, Bob}
    /\ tokens = {AliceToken, BobToken}
    /\ apps = {}
    /\ app_seq = 0
    /\ pending = {}
    /\ redis_url = FALSE
    /\ redis_conn = FALSE
    /\ store_up = TRUE
    /\ counters = [k \in RateKeys |-> NoCounter]
    /\ now = 1
    /\ last = NoRequest

NextDelete ==
    \/ \E u \in users, data \in CreateInputs : SeedApplication(u.id, data)
    \/ \E token \in tokens, id \in AppIds : get_application(token, id)
    \/ \E token \in tokens, id \in AppIds :
          update_application(token, id, [EmptyUpdate EXCEPT !["status"] = Val("rejected")])
    \/ \E token \in tokens, id \in AppIds : delete_application(token, id)
    \/ \E token \in tokens, id \in AppIds : toggle_archive(token, id)
    \/ \E token \in tokens, is_archived \in BOOLEAN :
          get_applications(token, NoStatus, NoSearch, is_archived, 0, 100)
    \/ \E token \in tokens : get_analytics_summary(token)
    \/ \E token \in tokens : get_timeline(token, 30)

SpecDelete == InitDelete /\ [][NextDelete]_vars

\* ================================================================ claims
ByIdOps == {"get", "update", "delete", "toggle"}
ProtectedOps == ByIdOps \cup {"me", "create", "list", "summary", "timeline"}

\* The request was aimed at a row of another account, or at no row.
NotOwnRow == last.pre = NoApp \/ last.pre.user_id # last.caller

\* C1: a get, update, delete or toggle-archive by an authenticated caller for an
\* application of another account gets the very response given for an
\* identifier that does not exist: 404 'Application not found', never another
\* status.
C1_NotOwnedIsNotFound ==
    (last.op \in ByIdOps /\ last.caller # GhostId /\ NotOwnRow) => last.resp = not_found

C1_Witness ==
    /\ last.op = "update"
    /\ last.caller # GhostId
    /\ last.pre # NoApp
    /\ last.pre.user_id # last.caller
    /\ last.resp = not_found

\* C3: a step that ends in the not-found response leaves the applications
\* table as it was: no row added, removed or changed in any column.
C3_NotFoundChangesNothing ==
    [][(last'.op \in ByIdOps /\ last'.resp = not_found) => apps' = apps]_vars

C3_Witness ==
    /\ last.op = "delete"
    /\ last.resp = not_found
    /\ last.pre # NoApp
    /\ last.pre \in apps

\* C10 (as claimed): a toggle by the owner answers 200 with the record, its
\* archived flag negated and nothing else changed but the update timestamp.
C10_ToggleReturnsNegatedRecord ==
    (last.op = "toggle" /\ last.caller # GhostId /\ ~NotOwnRow) =>
        /\ last.resp.status = 200
        /\ last.resp.body.id = last.pre.id
        /\ last.resp.body.is_archived = ~last.pre.is_archived

\* The caller's own rows that are not archived.
OwnActive(user_id) == {a \in apps : a.user_id = user_id /\ ~a.is_archived}

C2_OnlyOwnRows ==
    /\ \A u \in users, is_archived \in BOOLEAN :
          \A a \in ListQuery(u.id, NoStatus, NoSearch, is_archived) : a.user_id = u.id
    /\ (last.op = "list" /\ last.resp.status = 200) =>
          \A i \in 1..Len(last.resp.body.items) :
             \E a \in apps : a.id = last.resp.body.items[i].id /\ a.user_id = last.caller
    /\ (last.op = "summary" /\ last.resp.status = 200) =>
          /\ last.resp.body.total_applications = Cardinality(OwnActive(last.caller))
          /\ \A st \in DOMAIN last.resp.body.status_breakdown :
                last.resp.body.status_breakdown[st] =
                   Cardinality({a \in OwnActive(last.caller) : a.status = st})
          /\ last.resp.body.applications_this_week <= Cardinality(OwnActive(last.caller))
          /\ last.resp.body.applications_this_month <= Cardinality(OwnActive(last.caller))
    /\ (last.op = "timeline" /\ last.resp.status = 200) =>
          \A i \in 1..Len(last.resp.body.items) :
             last.resp.body.items[i].count =
                Cardinality({a \in OwnActive(last.caller) :
                                a.date_applied = last.resp.body.items[i].date})

\* What the three read endpoints would answer to an account.
ViewOf(user_id) ==
    <<ListQuery(user_id, NoStatus, NoSearch, FALSE), ListQuery(user_id, NoStatus, NoSearch, TRUE),
      AnalyticsSummary(user_id, now), TimelineData(user_id, 30, now)>>

C2_OthersDoNotInterfere ==
    \A u \in users : (last'.caller # u.id /\ now' = now) => ViewOf(u.id)' = ViewOf(u.id)

\* C2: every record List returns and every count Summary and Timeline return to
\* a caller is about rows the caller owns, and a step taken by another account
\* (rows added, changed, archived or deleted) leaves what the caller's list,
\* summary and timeline return unchanged.
C2_TenantIsolation == []C2_OnlyOwnRows /\ [][C2_OthersDoNotInterfere]_vars

C2_Witness ==
    /\ last.op = "summary"
    /\ last.resp.body.total_applications = 1
    /\ \E a \in apps : a.user_id # last.caller /\ ~a.is_archived

\* ---------------------------------------------------------------- register
email_taken == HTTPException(400, "Email already registered", "")

\* C4 (as claimed): every register request whose email already belongs to an
\* account is answered 400 'Email already registered'.
C4_DuplicateEmailIsConflict ==
    (last.op = "register" /\ last.known) => last.resp = email_taken

C5_UniqueEmails ==
    \A u1, u2 \in users : u1.email = u2.email => u1 = u2

C5_LoserCreatesNothing ==
    (last'.op = "register" /\ last'.resp.status # 201) => users' = users

\* C5: no two accounts ever have the same email, also when two register
\* requests for one email are both past the existence check before either
\* commits; the request that loses the race creates no account.
C5_EmailUniqueness == []C5_UniqueEmails /\ [][C5_LoserCreatesNothing]_vars

C5_Witness ==
    /\ last.op = "register"
    /\ ~last.known
    /\ last.resp.status = 500
    /\ Cardinality({u \in users : u.email = last.email}) = 1

\* ------------------------------------------------------------------- login
\* The request carries the password the account of that email registered with.
RightPassword ==
    /\ last.known
    /\ \E u \in users : u.email = last.email /\ u.hashed_password.digest[2] = last.password

\* The token of the response resolves to the account of the request's email,
\* and to no other, at every instant up to its expiry.
TokenResolvesToAccount ==
    /\ last.resp.body.kind = "token"
    /\ last.resp.body.token_type = "bearer"
    /\ \A t \in last.at..last.resp.body.access_token.exp :
          LET auth == get_current_user(last.resp.body.access_token, t)
          IN  auth.ok /\ auth.user.email = last.email
                      /\ \A u \in users : u.id = auth.user.id => u.email = last.email

LoginKey == <<"login", last'.ip>>

C6_AnsweredRightPassword ==
    (last.op = "login" /\ RightPassword) =>
        \/ last.resp.status = 200 /\ TokenResolvesToAccount
        \/ last.resp = too_many_requests(RATE_LIMIT_LOGIN_WINDOW)

C6_TokenWhenNotLimited ==
    (last' # last /\ last'.op = "login" /\ RightPassword' /\
     counters[LoginKey].n < RATE_LIMIT_LOGIN_MAX) => last'.resp.status = 200

incorrect_email_or_password ==
    HTTPException(401, "Incorrect email or password", "WWW-Authenticate: Bearer")

C7_AnsweredBadLogin ==
    (last.op = "login" /\ ~RightPassword) =>
        last.resp \in {incorrect_email_or_password, too_many_requests(RATE_LIMIT_LOGIN_WINDOW)}

C7_BadLoginStep ==
    (last' # last /\ last'.op = "login" /\ ~RightPassword') =>
        /\ tokens' = tokens
        /\ users' = users
        /\ counters[LoginKey].n < RATE_LIMIT_LOGIN_MAX => last'.resp = incorrect_email_or_password

Issued == last.token \in tokens

\* The presented token is one that identity resolution must refuse.
Refused ==
    \/ last.token \in BadTokens
    \/ Issued /\ last.at > last.token.exp

bearer_401 ==
    /\ last.resp.status = 401
    /\ last.resp.headers = "WWW-Authenticate: Bearer"
    /\ last.resp.body = NoBody

C8_Rejected ==
    (last.op \in ProtectedOps /\ Refused) =>
        /\ bearer_401
        /\ last.token # MissingToken =>
              last.resp = HTTPException(401, "Could not validate credentials",
                                        "WWW-Authenticate: Bearer")

C8_RejectedChangesNothing ==
    (last' # last /\ last'.op \in ProtectedOps /\ last'.resp.status = 401) => apps' = apps

\* C8: every protected endpoint answers a missing, malformed, wrongly signed,
\* expired or subject-less token, and a token whose subject has no account,
\* with 401 and the Bearer challenge; the answer for 'no such account' is the
\* very answer for an invalid token; the request returns no application data
\* and leaves the applications table as it was.
C8_BadTokenRejected == []C8_Rejected /\ [][C8_RejectedChangesNothing]_vars

C8_Witness ==
    /\ last.op = "delete"
    /\ last.token = GhostToken
    /\ last.pre # NoApp
    /\ last.pre \in apps
    /\ last.resp.status = 401

C9_IssuedWithTtl ==
    (last.op = "login" /\ last.resp.status = 200) =>
        last.resp.body.access_token.exp = last.at + ACCESS_TOKEN_EXPIRE_MINUTES

C9_AcceptedUntilExpiry ==
    (last.op \in ProtectedOps /\ Issued) =>
        /\ last.at < last.token.exp => last.resp.status # 401
        /\ last.at > last.token.exp => last.resp.status = 401

C9_NeverRevoked ==
    \A token \in tokens :
        /\ token \in tokens'
        /\ now < token.exp => get_current_user(token, now)'.ok

\* C9: a token issued at t with time-to-live d is accepted at every instant
\* before t + d and refused at every instant after t + d, whatever requests
\* are served in between; no step takes an issued token back.
C9_ValidUntilExpiry ==
    []C9_IssuedWithTtl /\ []C9_AcceptedUntilExpiry /\ [][C9_NeverRevoked]_vars

C9_Witness ==
    /\ last.op = "summary"
    /\ Issued
    /\ last.at > last.token.exp
    /\ last.resp.status = 401
    /\ \E token \in tokens : now <= token.exp

\* --------------------------------------------------------------- analytics
Offers(user_id) == {a \in OwnActive(user_id) : a.status \in {"offer", "accepted"}}

SummaryAnswered == last.op = "summary" /\ last.resp.status = 200

\* C11 (as claimed): success_rate is 0.0 without a non-archived application
\* and otherwise equals 100 * offers-or-accepted / total exactly (rates are
\* in hundredths of a percent).
C11_RateIsExactQuotient ==
    SummaryAnswered =>
        LET total == Cardinality(OwnActive(last.caller))
            offers == Cardinality(Offers(last.caller))
        IN  IF total = 0 THEN last.resp.body.success_rate = 0
            ELSE last.resp.body.success_rate * total = offers * 10000

\* C11 (amended): success_rate is 0.0 without a non-archived application and
\* otherwise is 100 * offers-or-accepted / total rounded to two decimal
\* places, both counted over the caller's non-archived applications only; it
\* lies between 0 and 100.
C11_RateIsRoundedQuotient ==
    SummaryAnswered =>
        LET total == Cardinality(OwnActive(last.caller))
            offers == Cardinality(Offers(last.caller))
            rate == last.resp.body.success_rate
        IN  /\ rate >= 0 /\ rate <= 10000
            /\ IF total = 0 THEN rate = 0
               ELSE /\ 2 * (rate * total - offers * 10000) <= total
                    /\ 2 * (offers * 10000 - rate * total) <= total

C11_Witness ==
    /\ SummaryAnswered
    /\ Cardinality(OwnActive(last.caller)) = 3
    /\ Cardinality(Offers(last.caller)) = 2
    /\ last.resp.body.success_rate = 6667

RECURSIVE SumOver(_, _)
SumOver(f, S) ==
    IF S = {} THEN 0
    ELSE LET x == CHOOSE y \in S : TRUE IN f[x] + SumOver(f, S \ {x})

TimelineAnswered == last.op = "timeline" /\ last.resp.status = 200

\* The caller's non-archived rows applied on or after today - days.
InWindow == {a \in OwnActive(last.caller) : a.date_applied >= last.at - last.query.days}

\* C13: Timeline has exactly one entry per distinct date-applied value on or
\* after today - d of a non-archived application of the caller; the entry's
\* count is the number of such applications of that date, at least 1; the
\* entries are in strictly ascending date order.
C13_TimelineIsSparseAndSorted ==
    TimelineAnswered =>
        LET items == last.resp.body.items IN
        /\ {items[i].date : i \in 1..Len(items)} = {a.date_applied : a \in InWindow}
        /\ \A i \in 1..Len(items) :
              /\ items[i].count = Cardinality({a \in InWindow : a.date_applied = items[i].date})
              /\ items[i].count >= 1
        /\ \A i, j \in 1..Len(items) : i < j => items[i].date < items[j].date

C13_Witness ==
    /\ TimelineAnswered
    /\ last.query.days = 0
    /\ Len(last.resp.body.items) = 1
    /\ last.resp.body.items[1].count = 2
    /\ \E a \in OwnActive(last.caller) : a.date_applied < last.at - last.query.days

\* -------------------------------------------------------------------- list
ListHandled == last.op = "list" /\ last.caller # GhostId

\* s, compared case-insensitively and character for character, occurs as a
\* contiguous run in c.
Occurs(search, c) ==
    \E k \in 0..Len(c) :
        /\ k + Len(search) <= Len(c)
        /\ \A i \in 1..Len(search) : Lower(c[k + i]) = Lower(search[i])

Wildcards == {"%", "_"}
Plain(search) == \A i \in 1..Len(search) : search[i] \notin Wildcards

\* The row passes the archived and the status filter of the last request.
PassesFlags(a) ==
    /\ a.user_id = last.caller
    /\ a.is_archived = last.query.is_archived
    /\ (last.query.status # NoStatus => a.status = last.query.status)

\* C14: a row is in the list only if it is the caller's and passes every
\* supplied filter at once: archived flag equal to the requested one (false by
\* default), status equal to the requested one, company name containing the
\* search (checked for searches without wildcard characters); the records of
\* a 200 response are among these rows.
C14_FiltersAndTogether ==
    ListHandled =>
        /\ \A i \in 1..Len(last.returned) :
              /\ PassesFlags(last.returned[i])
              /\ Plain(last.query.search) =>
                    Occurs(last.query.search, last.returned[i].company_name)
        /\ last.resp.status = 200 =>
              \A i \in 1..Len(last.resp.body.items) :
                 \E j \in 1..Len(last.returned) :
                    last.returned[j].id = last.resp.body.items[i].id

C14_Witness ==
    /\ ListHandled
    /\ last.query.status = "offer"
    /\ last.query.search = <<"O", "G">>
    /\ last.query.is_archived
    /\ Len(last.returned) = 1
    /\ \E a \in apps : a.user_id = last.caller /\ a.is_archived /\ a.status = "offer"
                       /\ a.company_name = Acme
    /\ \E a \in apps : a.user_id = last.caller /\ ~a.is_archived /\ a.company_name = Google

\* C15 (as claimed): with search s, a row of the caller that passes the other
\* filters is in the list if and only if s occurs, case-insensitively, as a
\* contiguous substring of its company name, whatever characters s contains.
C15_SearchIsSubstring ==
    ListHandled =>
        \A a \in apps :
            PassesFlags(a) =>
                ((\E i \in 1..Len(last.returned) : last.returned[i] = a)
                    <=> Occurs(last.query.search, a.company_name))

\* C16 (as claimed): a create request of an authenticated caller is answered
\* 201 and the table then holds the new record: owned by the caller, not
\* archived, with the supplied status, under an identifier no earlier record
\* had.
C16_CreateAddsOneRecord ==
    (last.op = "create" /\ last.caller # GhostId) =>
        /\ last.resp.status = 201
        /\ \E a \in apps :
              /\ a.id = last.app_id
              /\ a.id = app_seq
              /\ a.user_id = last.caller
              /\ ~a.is_archived
              /\ a.status \in ApplicationStatus

\* C17 (as claimed): an update by the owner of the row is answered 200, and
\* the columns whose keys the request leaves out keep their stored values.
OwnerUpdated ==
    /\ last.op = "update"
    /\ last.caller # GhostId
    /\ ~NotOwnRow

C17_UpdateSetsPresentKeys ==
    OwnerUpdated =>
        /\ last.resp.status = 200
        /\ \E a \in apps :
              /\ a.id = last.pre.id
              /\ \A f \in {"user_id", "company_name", "job_title", "date_applied",
                            "job_url", "notes", "is_archived", "created_at"} :
                    a[f] = last.pre[f]

\* An identifier that was given to a row and has no row now: a deleted one.
Deleted(id) == id \in 1..app_seq /\ AppById(id) = NoApp

\* A row leaves the table only in the step of a delete by its owner that is
\* answered 204, and no other row leaves with it.
C18_OnlyTheDeletedRowLeaves ==
    [][(\E a \in apps : a \notin apps' /\ \A b \in apps' : b.id # a.id) =>
          /\ last'.op = "delete"
          /\ last'.resp = Ok(204, NoBody)
          /\ last'.pre \in apps
          /\ last'.pre.user_id = last'.caller
          /\ last'.pre.id = last'.app_id
          /\ apps' = apps \ {last'.pre}]_vars

\* No step gives a deleted identifier a row again.
C18_DeletedStaysGone ==
    [][\A id \in AppIds : Deleted(id) => \A a \in apps' : a.id # id]_vars

\* After a 204 the row is gone; a request that finds the row of its
\* identifier deleted is answered not-found whoever sends it; lists and analytics are made of rows
\* of the table only.
C18_GoneForEveryRequest ==
    /\ (last.op = "delete" /\ last.resp.status = 204) => Deleted(last.app_id)
    /\ (last.op \in ByIdOps /\ last.caller # GhostId /\ last.app_id \in 1..app_seq
            /\ last.pre = NoApp) =>
          last.resp = not_found /\ Deleted(last.app_id)
    /\ last.op = "list" =>
          \A i \in 1..Len(last.returned) : last.returned[i] \in apps
    /\ SummaryAnswered =>
          last.resp.body.total_applications = Cardinality(OwnActive(last.caller))
    /\ TimelineAnswered =>
          \A i \in 1..Len(last.resp.body.items) :
             last.resp.body.items[i].count =
                Cardinality({a \in InWindow : a.date_applied = last.resp.body.items[i].date})

\* C18: after a delete by the owner answered 204 the record is gone for
\* good: every later get, update, delete or toggle of the identifier is
\* answered not-found for every caller, no list, summary or timeline counts
\* it, no step brings it back, and the delete removes no other record.
C18_DeleteIsPermanent ==
    /\ []C18_GoneForEveryRequest
    /\ C18_OnlyTheDeletedRowLeaves
    /\ C18_DeletedStaysGone

\* The owner asks for a row deleted earlier while a later row of theirs is
\* still stored.
C18_Witness ==
    /\ last.op = "get"
    /\ last.caller = Alice.id
    /\ Deleted(last.app_id)
    /\ last.resp = not_found
    /\ \E a \in apps : a.user_id = Alice.id /\ a.id > last.app_id

\* The settings of a counter's action category.
MaxOf(key) == IF key[1] = "login" THEN RATE_LIMIT_LOGIN_MAX ELSE RATE_LIMIT_REGISTER_MAX
WindowOf(key) ==
    IF key[1] = "login" THEN RATE_LIMIT_LOGIN_WINDOW ELSE RATE_LIMIT_REGISTER_WINDOW

\* The step's request on this key is answered 429 by the limiter.
RejectedStep(key) ==
    /\ last'.op = key[1]
    /\ last'.ip = key[2]
    /\ last'.resp = too_many_requests(WindowOf(key))
    /\ pending' = pending
    /\ tokens' = tokens

\* The step handles a request that reached the limiter under this key.
LimitedRequestStep(key) ==
    \/ key[1] = "login" /\ last' # last /\ last'.op = "login" /\ last'.ip = key[2]
    \/ /\ key[1] = "register"
       /\ \/ \E p \in pending' \ pending : p.ip = key[2]
          \/ /\ last' # last
             /\ pending' = pending
             /\ last'.op = "register"
             /\ last'.ip = key[2]
             /\ last'.resp.status \in {400, 429}

\* Requests are counted one by one, and the request that takes the counter
\* to k is rejected exactly when k > max.
C19_KthRequest ==
    [][\A key \in RateKeys :
          /\ LimitedRequestStep(key) => counters'[key].n = counters[key].n + 1
          /\ counters'[key].n > counters[key].n =>
                /\ counters'[key].n = counters[key].n + 1
                /\ RejectedStep(key) <=> counters'[key].n > MaxOf(key)]_vars

\* A counter's lifetime ends only by its expiry, one window after the expiry
\* call of its first request; the expiry, once set, stays.
C19_LifetimeIsOneWindow ==
    [][\A key \in RateKeys :
          /\ counters'[key].n < counters[key].n =>
                /\ counters'[key] = NoCounter
                /\ counters[key].exp # NoExpiry
                /\ counters[key].exp <= now'
          /\ (counters[key].exp # NoExpiry /\ counters'[key].n >= counters[key].n) =>
                counters'[key].exp = counters[key].exp
          /\ (counters[key].exp = NoExpiry /\ counters'[key].exp # NoExpiry) =>
                counters'[key].exp = now + WindowOf(key)]_vars

\* C19: while the counter store is reachable, within one lifetime of a key's
\* counter the k-th register or login request that reaches the limiter is
\* allowed if k <= max and rejected with 429 if k > max, also when requests
\* of the key are handled concurrently.
C19_AtMostMaxPerWindow ==
    /\ C19_KthRequest
    /\ C19_LifetimeIsOneWindow

\* After an earlier login at time 0, the login that takes the counter past
\* max is rejected while a register is still between check and commit.
C19_Witness ==
    /\ last.op = "login"
    /\ last.resp = too_many_requests(RATE_LIMIT_LOGIN_WINDOW)
    /\ last.at >= 1
    /\ counters[<<"login", last.ip>>].n = RATE_LIMIT_LOGIN_MAX + 1
    /\ counters[<<"login", last.ip>>].exp # NoExpiry
    /\ \E t \in tokens : t.exp = ACCESS_TOKEN_EXPIRE_MINUTES
    /\ pending # {}

\* C20 (as claimed): a register or login request handled while the counter
\* store is unconfigured or down is answered neither 429 nor with a server
\* error.
C20_StoreFailureAllows ==
    [][(/\ last' # last
        /\ last'.op \in {"register", "login"}
        /\ ~redis_url \/ ~store_up) =>
           last'.resp.status \notin {429, 500}]_vars

\* C21 (as claimed): a register request whose password breaks one of the
\* four rules is answered 422; one with a password that meets them and an
\* email no account had is answered 201 and there is then exactly one account
\* of that email.
C21_PasswordRulesDecide ==
    last.op = "register" =>
        /\ ~validate_password(last.password) => last.resp.status = 422
        /\ (validate_password(last.password) /\ ~last.known) =>
              /\ last.resp.status = 201
              /\ Cardinality({u \in users : u.email = last.email}) = 1

\* The fields of an account as a response shows it.
AccountFields == {"kind", "id", "email", "full_name", "role"}

\* C22: the account returned by a successful registration consists of the
\* identifier, email, full name and role, the role is 'user', the password and
\* its hash are not in it; every stored account has role 'user' in every
\* reachable state.
C22_AccountWithoutSecrets ==
    /\ (last.op = "register" /\ last.resp.status = 201) =>
          /\ DOMAIN last.resp.body = AccountFields
          /\ last.resp.body.role = UserRoleUSER
          /\ \E u \in users : /\ u.id = last.resp.body.id
                               /\ u.email = last.resp.body.email
                               /\ u.email = last.email
                               /\ u.full_name = last.resp.body.full_name
    /\ (last.op = "me" /\ last.resp.status = 200) => DOMAIN last.resp.body = AccountFields
    /\ \A u \in users : u.role = UserRoleUSER

C22_Witness ==
    /\ last.op = "register"
    /\ last.resp.status = 201
    /\ last.resp.body.role = UserRoleUSER
    /\ \E u \in users : u.id = last.resp.body.id /\ verify_password(last.password, u.hashed_password)

\* The last request is an update or a toggle of a row by its owner.
OwnerMutated ==
    /\ last.op \in {"update", "toggle"}
    /\ last.caller # GhostId
    /\ ~NotOwnRow

\* C23 (as claimed): after every update answered 200 and every toggle of a
\* row by its owner the row's update timestamp is the time of that request.
C23_EveryMutationRefreshes ==
    (OwnerMutated /\ (last.op = "toggle" \/ last.resp.status = 200)) =>
        AppById(last.app_id).updated_at = last.at

\* The update timestamp of a row never decreases, and a step that changes a
\* row stamps it with the time of the request.
C23_StampedWhenChanged ==
    [][\A a \in apps, b \in apps' :
          a.id = b.id =>
              /\ b.updated_at >= a.updated_at
              /\ b # a => b.updated_at = now]_vars

\* After a toggle, and after an update that changed a column, the row's
\* update timestamp is the time of that request; an update that changed no
\* column leaves it as it was.
C23_RefreshedByLastChange ==
    OwnerMutated =>
        LET row == AppById(last.app_id)
            changed == \E f \in ApplicationColumns \ {"updated_at"} : row[f] # last.pre[f]
        IN  /\ last.op = "toggle" => changed
            /\ changed => row.updated_at = last.at
            /\ ~changed => row.updated_at = last.pre.updated_at

\* C23 (amended): every update by the owner that changes a stored column and
\* every archive toggle sets the update timestamp to the time of the request,
\* an update that changes nothing leaves it; the timestamp never decreases.
C23_ChangingMutationRefreshes ==
    /\ []C23_RefreshedByLastChange
    /\ C23_StampedWhenChanged

\* A row created at time 0 whose status a later update changed.
C23_Witness ==
    /\ OwnerMutated
    /\ last.op = "update"
    /\ last.resp.status = 200
    /\ last.at >= 1
    /\ last.pre.updated_at = 0
    /\ AppById(last.app_id).status # last.pre.status
    /\ AppById(last.app_id).updated_at = last.at

\* A stored row keeps its identifier and owner in every step that does not
\* delete it, and its archived flag unless the step is its owner's toggle.
C24_OwnerIdAndFlagKept ==
    [][\A a \in apps :
          \/ /\ \A b \in apps' : b.id # a.id
             /\ last'.op = "delete"
             /\ last'.pre = a
          \/ \E b \in apps' :
                /\ b.id = a.id
                /\ b.user_id = a.user_id
                /\ b.created_at = a.created_at
                /\ b.is_archived # a.is_archived =>
                      /\ last'.op = "toggle"
                      /\ last'.app_id = a.id
                      /\ last'.caller = a.user_id]_vars

\* After an update by the owner the row has the identifier, the owner and
\* the archived flag it had before; identifiers are unique.
C24_UpdateKeepsThem ==
    /\ \A a, b \in apps : a.id = b.id => a = b
    /\ (last.op = "update" /\ last.caller # GhostId /\ ~NotOwnRow) =>
          \E a \in apps :
             /\ a.id = last.pre.id
             /\ a.user_id = last.pre.user_id
             /\ a.is_archived = last.pre.is_archived

\* C24: every application keeps the owner and the identifier it was created
\* with, and its archived flag changes only through toggle-archive: no update,
\* whatever its body, changes owner, identifier or archived flag.
C24_OnlyToggleArchives ==
    /\ []C24_UpdateKeepsThem
    /\ C24_OwnerIdAndFlagKept

\* An update whose body named status, archived flag and owner changed the
\* status only.
C24_Witness ==
    /\ last.op = "update"
    /\ last.resp.status = 200
    /\ last.pre # NoApp
    /\ last.pre.status # "rejected"
    /\ \E a \in apps : /\ a.id = last.app_id
                        /\ a.status = "rejected"
                        /\ a.user_id = last.caller
                        /\ a.user_id # Bob.id
                        /\ ~a.is_archived

\* C25 (as claimed): an update by the owner that sets a status succeeds and
\* leaves the record with a status label, whatever status it had; a create
\* with any of the six labels succeeds.
C25_NoTransitionRefused ==
    /\ (last.op = "update" /\ last.caller # GhostId /\ ~NotOwnRow) =>
          /\ last.resp.status = 200
          /\ AppById(last.app_id).status \in ApplicationStatus
    /\ (last.op = "create" /\ last.caller # GhostId) => last.resp.status = 201

\* The caller's rows that pass the filters of the last list request.
Matching == {a \in apps : PassesFlags(a)}

\* The rows the handler selected are a page of the matching rows in
\* descending date order: no more than limit and as many as are left after
\* skip, each one a matching row, none twice, dates not ascending, and the
\* row at position skip + i has at most skip + i - 1 matching rows of a later
\* date and at least skip + i of the same or a later date.
PageOfSorted ==
    LET rows == last.returned
        left == Cardinality(Matching) - last.query.skip
    IN  /\ Len(rows) <= last.query.limit
        /\ Len(rows) = IF left <= 0 THEN 0
                       ELSE IF left < last.query.limit THEN left ELSE last.query.limit
        /\ \A i \in 1..Len(rows) :
              /\ rows[i] \in Matching
              /\ \A j \in 1..Len(rows) : i < j =>
                    rows[i] # rows[j] /\ rows[i].date_applied >= rows[j].date_applied
              /\ Cardinality({a \in Matching : a.date_applied > rows[i].date_applied})
                    <= last.query.skip + i - 1
              /\ Cardinality({a \in Matching : a.date_applied >= rows[i].date_applied})
                    >= last.query.skip + i

\* C26 (as claimed): a list request with skip and limit is answered with the
\* records at positions skip .. skip+limit-1 of the caller's matching records
\* in descending date order, at most limit of them.
C26_ListReturnsThePage ==
    ListHandled =>
        /\ PageOfSorted
        /\ last.resp.status = 200
        /\ Len(last.resp.body.items) = Len(last.returned)
        /\ \A i \in 1..Len(last.returned) :
              last.resp.body.items[i].id = last.returned[i].id

\* The step answers a register or login request of this key (a register's
\* commit takes its request out of pending and is no such step).
AnsweredStep(key) ==
    /\ last' # last
    /\ last'.op = key[1]
    /\ last'.ip = key[2]
    /\ pending' = pending

\* The step's answer is the 429 with the window length as Retry-After.
Answered429(key) ==
    /\ last'.resp.status = 429
    /\ last'.resp.headers = <<"Retry-After", WindowOf(key)>>

\* C27 (as claimed): once the counter of a key exceeds the maximum, every
\* register or login request of that key is answered 429 with Retry-After
\* equal to the window length, and creates no account and issues no token.
C27_ExceededMeans429 ==
    [][\A key \in RateKeys :
          (counters[key].n > MaxOf(key) /\ AnsweredStep(key)) =>
              /\ Answered429(key)
              /\ users' = users
              /\ tokens' = tokens]_vars

\* C27 (amended): while the counter store is reachable and the counter of a
\* key exceeds the maximum, every register or login request of that key that
\* passes request validation is counted and answered 429 with Retry-After
\* equal to the window length, whatever its credentials or email, and
\* creates no account and issues no token; a register whose body fails
\* validation is answered 422 instead.
C27_ExceededMeans429WhenChecked ==
    [][\A key \in RateKeys :
          (counters[key].n > MaxOf(key) /\ redis_url /\ store_up) =>
              /\ AnsweredStep(key) =>
                    /\ users' = users /\ tokens' = tokens
                    /\ IF key[1] = "register" /\ ~validate_password(last'.password)
                       THEN last'.resp.status = 422 /\ counters' = counters
                       ELSE Answered429(key) /\ counters'[key].n = counters[key].n + 1
              /\ counters'[key].n > counters[key].n =>
                    /\ last'.op = key[1]
                    /\ Answered429(key)
                    /\ users' = users /\ tokens' = tokens /\ pending' = pending]_vars

\* A login with the right password of an existing account, and earlier a
\* register, rejected after the login counter had exceeded the maximum.
C27_Witness ==
    /\ last.op = "login"
    /\ last.resp.status = 429
    /\ last.resp.headers = <<"Retry-After", RATE_LIMIT_LOGIN_WINDOW>>
    /\ \E u \in users : /\ u.email = last.email
                         /\ verify_password(last.password, u.hashed_password)
    /\ counters[<<"login", last.ip>>].n = RATE_LIMIT_LOGIN_MAX + 2
    /\ store_up

\* C28 (as claimed): every counter that exists in the store has an expiry,
\* no later than one window from now, also after a store failure between the
\* increment and the expiry call of a first request; so a rejected client is
\* allowed again once the window has passed.
C28_EveryCounterExpires ==
    \A key \in RateKeys :
        counters[key].n >= 1 =>
            /\ counters[key].exp # NoExpiry
            /\ counters[key].exp <= now + WindowOf(key)

\* C29 (as claimed): every committed toggle of a row negates the flag the
\* row has when the toggle commits, so that two concurrent toggles leave the
\* flag at its original value and n committed toggles negate it n times.
C29_EveryCommittedToggleFlips ==
    [][\A a \in apps, b \in apps' :
          (/\ a.id = b.id
           /\ \E p \in pending \ pending' : p.op = "toggle" /\ p.read.id = a.id) =>
              b.is_archived = ~a.is_archived]_vars

\* C30: every Summary response is internally consistent, also when the
\* caller's applications are updated, archived or deleted by other requests
\* between its queries: the values of status_breakdown sum to total,
\* this_week <= this_month <= total, success_rate is 0.0 when total is 0 and
\* never exceeds 100 (the rate is in hundredths).
C30_SummaryIsConsistent ==
    SummaryAnswered =>
        LET body == last.resp.body IN
        /\ SumOver(body.status_breakdown, DOMAIN body.status_breakdown) = body.total_applications
        /\ body.applications_this_week <= body.applications_this_month
        /\ body.applications_this_month <= body.total_applications
        /\ body.total_applications = 0 => body.success_rate = 0
        /\ body.success_rate <= 10000

====
